---------------------------- MODULE Spec2Model ----------------------------
(***************************************************************************)
(* A model of bioframe/arrops.py: the interval operations arange_multi,    *)
(* overlap_intervals, merge_intervals, complement_intervals and            *)
(* closest_intervals.  Every operation is a pure function of its           *)
(* arguments; a behaviour is one call: the initial state holds the         *)
(* arguments (pc = "call"), the single step evaluates the function body    *)
(* and stores what it returns or the exception it raises (pc = "done").    *)
(*                                                                         *)
(* Arrays are sequences.  The ids and indices the code computes are kept   *)
(* 0-based as in the source; a sequence is indexed at (index + 1).         *)
(* An optional argument is <<>> for None and <<v>> for the value v.        *)
(***************************************************************************)
EXTENDS Integers, Sequences, FiniteSets

VARIABLES op, args, pc, ret, raised

vars == <<op, args, pc, ret, raised>>

(***************************************************************************)
(* Bounds of the model.                                                    *)
(***************************************************************************)
MaxCoord == 3
MaxPos == 2
MaxN1 == 2
MaxN2 == 2
MaxLen == 3
MaxK == 2
MaxDist == 1
MaxTie == 1

\* An array given by its elements, as a sequence.
Array(f) == f \o <<>>

Coord == 0..MaxCoord
\* Well-formed intervals (end >= start, the caller's precondition) with
\* coordinates up to c, and the collections of at most n of them.
IntervalsUpTo(c) == {iv \in (0..c) \X (0..c) : iv[1] <= iv[2]}
CollectionsUpTo(n, c) == UNION {[1..m -> IntervalsUpTo(c)] : m \in 0..n}
Collections(n) == CollectionsUpTo(n, MaxCoord)
StartsOf(c) == Array([i \in 1..Len(c) |-> c[i][1]])
EndsOf(c) == Array([i \in 1..Len(c) |-> c[i][2]])

None == <<>>
Some(v) == <<v>>
Value(o) == o[1]

(***************************************************************************)
(* numpy primitives.                                                       *)
(***************************************************************************)
Min(a, b) == IF a <= b THEN a ELSE b
Max(a, b) == IF a >= b THEN a ELSE b

\* np.arange(lo, hi)
np_arange(lo, hi) == Array([i \in 1..Max(hi - lo, 0) |-> lo + i - 1])

\* a[idx] for an index array idx (0-based indices)
take(a, idx) == Array([i \in 1..Len(idx) |-> a[idx[i] + 1]])

\* a[mask] for a boolean mask of the same length
RECURSIVE compress(_, _)
compress(a, mask) ==
    IF a = <<>> THEN <<>>
    ELSE (IF Head(mask) THEN <<Head(a)>> ELSE <<>>) \o compress(Tail(a), Tail(mask))

\* np.repeat(a, repeats)
RECURSIVE np_repeat(_, _)
np_repeat(a, repeats) ==
    IF a = <<>> THEN <<>>
    ELSE Array([i \in 1..Head(repeats) |-> Head(a)]) \o np_repeat(Tail(a), Tail(repeats))

\* a.sum()
RECURSIVE np_sum(_)
np_sum(a) == IF a = <<>> THEN 0 ELSE Head(a) + np_sum(Tail(a))

\* a.cumsum()
np_cumsum(a) == Array([i \in 1..Len(a) |-> np_sum(SubSeq(a, 1, i))])

\* np.maximum.accumulate(a)
RECURSIVE maximum_accumulate(_)
maximum_accumulate(a) ==
    IF Len(a) <= 1 THEN a
    ELSE LET front == maximum_accumulate(SubSeq(a, 1, Len(a) - 1))
         IN  Append(front, Max(front[Len(front)], a[Len(a)]))

\* np.searchsorted(a, v, side) for a sorted array a and one value v
searchsorted(a, v, side) ==
    IF side = "left" THEN Cardinality({i \in 1..Len(a) : a[i] < v})
    ELSE Cardinality({i \in 1..Len(a) : a[i] <= v})

\* Comparison of rows i and j under np.lexsort's key order: the LAST key is
\* the primary one.
RECURSIVE KeyLess(_, _, _, _)
KeyLess(keys, m, i, j) ==
    IF m = 0 THEN FALSE
    ELSE IF keys[m][i] < keys[m][j] THEN TRUE
    ELSE IF keys[m][i] > keys[m][j] THEN FALSE
    ELSE KeyLess(keys, m - 1, i, j)

\* np.lexsort(keys): the stable sorting permutation (0-based indices).
lexsort(keys) ==
    LET m == Len(keys)
        n == Len(keys[m])
        rank(i) == Cardinality({j \in 1..n :
                        \/ KeyLess(keys, m, j, i)
                        \/ (~KeyLess(keys, m, i, j) /\ j < i)})
    IN  Array([r \in 1..n |-> (CHOOSE i \in 1..n : rank(i) = r - 1) - 1])

\* np.argsort(a) with the default kind (quicksort, not stable): every
\* permutation that sorts a is a possible result; the order among equal
\* elements is not determined.
argsort(a) ==
    {p \in [1..Len(a) -> 0..(Len(a) - 1)] :
        /\ \A i, j \in 1..Len(a) : i # j => p[i] # p[j]
        /\ \A i \in 1..(Len(a) - 1) : a[p[i] + 1] <= a[p[i + 1] + 1]}

(***************************************************************************)
(* arange_multi                                                            *)
(***************************************************************************)
\* The body after "lengths = stops - starts": the concatenated ranges
\* [starts[i], starts[i] + lengths[i]).
concat_ranges(starts, lengths) ==
    LET cat_start == np_repeat(starts, lengths)
        offsets == np_repeat(Array([i \in 1..Len(lengths) |->
                                       np_cumsum(lengths)[i] - lengths[i]]), lengths)
        cat_counter == Array([i \in 1..np_sum(lengths) |-> (i - 1) - offsets[i]])
    IN  Array([i \in 1..np_sum(lengths) |-> cat_start[i] + cat_counter[i]])

arange_multi(starts, stops, lengths) ==
    IF lengths = None
    THEN concat_ranges(starts, Array([i \in 1..Len(starts) |-> Value(stops)[i] - starts[i]]))
    ELSE concat_ranges(starts, Value(lengths))

\* The arguments of a call: stops, lengths, both or neither are given.
ArangeArgs ==
    {[starts |-> a[1], stops |-> a[2], lengths |-> a[3]] :
        a \in UNION {
            {<<st, IF gs THEN Some(Array([i \in 1..n |-> st[i] + ln[i]])) ELSE None,
                   IF gl THEN Some(ln) ELSE None>> :
                st \in [1..n -> Coord], ln \in [1..n -> 0..MaxK],
                gs \in BOOLEAN, gl \in BOOLEAN} :
            n \in 0..MaxN2}}

InitArange ==
    /\ op = "arange_multi"
    /\ args \in ArangeArgs
    /\ pc = "call"
    /\ ret = <<>>
    /\ raised = "none"

CallArangeMulti ==
    /\ pc = "call"
    /\ op = "arange_multi"
    /\ IF (args.stops = None) = (args.lengths = None)
       THEN /\ raised' = "ValueError"
            /\ ret' = <<>>
       ELSE /\ raised' = "none"
            /\ ret' = arange_multi(args.starts, args.stops, args.lengths)
    /\ pc' = "done"
    /\ UNCHANGED <<op, args>>

(***************************************************************************)
(* overlap_intervals                                                       *)
(***************************************************************************)
\* A variant that searches from the right: an interval that only touches
\* the end e is taken into the match range.
find_match_end_right(starts, e) == searchsorted(starts, e, "right")

\* "Find interval overlaps": the end of the match range of the interval
\* that ends at e, in the jointly sorted starts.
find_match_end(starts, e) == searchsorted(starts, e, "left")

\* A variant that keeps the pairs of two intervals of the same set.
drop_same_set_none(overlap_ids) == overlap_ids

\* "Drop same-set overlaps": ids of set 1 are negative, of set 2 positive.
drop_same_set(overlap_ids) == SelectSeq(overlap_ids, LAMBDA p : p[1] * p[2] <= 0)

\* match_ends for every position of the jointly sorted intervals.
find_match_ends(starts, ends) ==
    Array([i \in 1..Len(ends) |-> find_match_end(starts, ends[i])])

\* "Ignore self-overlaps"
self_overlap_mask(match_starts, match_ends) ==
    Array([i \in 1..Len(match_starts) |-> match_ends[i] > match_starts[i] + 1])

\* The np.vstack of the ids at the match positions and of the ids in the
\* match ranges, transposed: one row <<id, id>> per match.
stack_matches(ids, match_starts, match_ends) ==
    LET col0 == np_repeat(take(ids, match_starts),
                    Array([i \in 1..Len(match_starts) |->
                              match_ends[i] - match_starts[i] - 1]))
        col1 == take(ids, arange_multi(Array([i \in 1..Len(match_starts) |->
                                                 match_starts[i] + 1]),
                                       Some(match_ends), None))
    IN  Array([i \in 1..Len(col1) |-> <<col0[i], col1[i]>>])

\* overlap_ids.sort(axis=-1) and the restoring of the original indexes
flip_and_restore(overlap_ids) ==
    Array([i \in 1..Len(overlap_ids) |->
              <<Min(overlap_ids[i][1], overlap_ids[i][2]) * (-1) - 1,
                Max(overlap_ids[i][1], overlap_ids[i][2]) - 1>>])

\* "Sort overlaps according to the 1st": by column 0, then by column 1
sort_rows(overlap_ids) ==
    take(overlap_ids,
         lexsort(<<Array([i \in 1..Len(overlap_ids) |-> overlap_ids[i][2]]),
                   Array([i \in 1..Len(overlap_ids) |-> overlap_ids[i][1]])>>))

\* The body from "Find interval overlaps" on, for the sorted intervals.
overlaps_of_sorted(starts, ends, ids) ==
    LET match_starts == np_arange(0, Len(starts))
        match_ends == find_match_ends(starts, ends)
        match_mask == self_overlap_mask(match_starts, match_ends)
    IN  sort_rows(flip_and_restore(drop_same_set(
            stack_matches(ids, compress(match_starts, match_mask),
                          compress(match_ends, match_mask)))))

overlap_intervals(starts1, ends1, starts2, ends2) ==
    LET order == lexsort(<<ends1 \o ends2, starts1 \o starts2>>)
    IN  overlaps_of_sorted(
            take(starts1 \o starts2, order),
            take(ends1 \o ends2, order),
            take(Array([i \in 1..Len(starts1) |-> -i])
                     \o Array([i \in 1..Len(starts2) |-> i]), order))

InitOverlap ==
    /\ op = "overlap_intervals"
    /\ \E c1 \in Collections(MaxN1), c2 \in Collections(MaxN2) :
          args = [starts1 |-> StartsOf(c1), ends1 |-> EndsOf(c1),
                  starts2 |-> StartsOf(c2), ends2 |-> EndsOf(c2)]
    /\ pc = "call"
    /\ ret = <<>>
    /\ raised = "none"

CallOverlapIntervals ==
    /\ pc = "call"
    /\ op = "overlap_intervals"
    /\ ret' = overlap_intervals(args.starts1, args.ends1, args.starts2, args.ends2)
    /\ raised' = "none"
    /\ pc' = "done"
    /\ UNCHANGED <<op, args>>

SpecOverlap == InitOverlap /\ [][CallOverlapIntervals]_vars

(***************************************************************************)
(* merge_intervals                                                         *)
(***************************************************************************)
\* A variant that treats a finite min_dist like None.
is_cluster_border_touching(start, prev_end, min_dist) ==
    IF min_dist # None THEN start >= prev_end + Value(min_dist)
    ELSE start >= prev_end

\* The test that puts a cluster border before a sorted interval: start is
\* the interval's start, prev_end the running maximum of the ends before it.
is_cluster_border(start, prev_end, min_dist) ==
    IF min_dist # None THEN start > prev_end + Value(min_dist)
    ELSE start >= prev_end

\* What the body computes: cluster_ids is scattered back to the input order,
\* cluster_ids_sorted is in the order of the sorted intervals.
merge_intervals_locals(starts0, ends0, min_dist) ==
    LET n == Len(starts0)
        order == lexsort(<<ends0, starts0>>)
        starts == take(starts0, order)
        ends == maximum_accumulate(take(ends0, order))
        cluster_borders == Array([i \in 1..(n + 1) |->
                               IF i = 1 \/ i = n + 1 THEN TRUE
                               ELSE is_cluster_border(starts[i], ends[i - 1], min_dist)])
        counts == np_cumsum(Array([i \in 1..(n + 1) |-> IF cluster_borders[i] THEN 1 ELSE 0]))
        cluster_ids_sorted == Array([i \in 1..n |-> counts[i] - 1])
        cluster_ids == Array([i \in 1..n |->
                           cluster_ids_sorted[CHOOSE r \in 1..n : order[r] = i - 1]])
        cluster_starts == compress(starts, SubSeq(cluster_borders, 1, n))
        cluster_ends == compress(ends, SubSeq(cluster_borders, 2, n + 1))
    IN  [cluster_ids |-> cluster_ids, cluster_ids_sorted |-> cluster_ids_sorted,
         cluster_starts |-> cluster_starts, cluster_ends |-> cluster_ends]

\* The return statement: (cluster_ids_sorted, cluster_starts, cluster_ends).
merge_intervals(starts, ends, min_dist) ==
    LET l == merge_intervals_locals(starts, ends, min_dist)
    IN  <<l.cluster_ids_sorted, l.cluster_starts, l.cluster_ends>>

MinDists == {None} \cup {Some(d) : d \in 0..MaxDist}

InitMerge ==
    /\ op = "merge_intervals"
    /\ \E c \in Collections(MaxLen), d \in MinDists :
          args = [starts |-> StartsOf(c), ends |-> EndsOf(c), min_dist |-> d]
    /\ pc = "call"
    /\ ret = <<>>
    /\ raised = "none"

CallMergeIntervals ==
    /\ pc = "call"
    /\ op = "merge_intervals"
    /\ ret' = merge_intervals(args.starts, args.ends, args.min_dist)
    /\ raised' = "none"
    /\ pc' = "done"
    /\ UNCHANGED <<op, args>>

SpecMerge == InitMerge /\ [][CallMergeIntervals]_vars

(***************************************************************************)
(* complement_intervals                                                    *)
(***************************************************************************)
\* a[lo:hi] for 0 <= lo and a stop hi that is None or a negative index
py_slice(a, lo, hi) ==
    SubSeq(a, lo + 1, IF hi = None THEN Len(a) ELSE Max(Len(a) + Value(hi), 0))

\* A variant that never drops the trailing gap.
trailing_stop_kept(complement_starts, complement_ends) == None

\* The stop of the final slice: -1 drops the trailing gap, None keeps it.
trailing_stop(complement_starts, complement_ends) ==
    IF complement_starts[Len(complement_starts)] >= complement_ends[Len(complement_ends)]
    THEN Some(-1) ELSE None

\* "Trim the complement to the bounds."
trim_complement(complement_starts, complement_ends) ==
    LET lo == IF complement_starts[1] >= complement_ends[1] THEN 1 ELSE 0
        hi == trailing_stop(complement_starts, complement_ends)
    IN  <<py_slice(complement_starts, lo, hi), py_slice(complement_ends, lo, hi)>>

\* The body after the merge: the spans are clipped to the bounds by lo and
\* hi, and the gaps lie between them.
complement_of_merged(merged_starts, merged_ends, bounds) ==
    LET lo == searchsorted(merged_ends, bounds[1], "right")
        hi == searchsorted(merged_starts, bounds[2], "left")
    IN  trim_complement(<<bounds[1]>> \o SubSeq(merged_ends, lo + 1, hi),
                        SubSeq(merged_starts, lo + 1, hi) \o <<bounds[2]>>)

complement_intervals(starts, ends, bounds) ==
    complement_of_merged(merge_intervals(starts, ends, Some(0))[2],
                         merge_intervals(starts, ends, Some(0))[3], bounds)

Bounds == {b \in Coord \X Coord : b[1] < b[2]}

InitComplement ==
    /\ op = "complement_intervals"
    /\ \E c \in Collections(MaxLen), b \in Bounds :
          args = [starts |-> StartsOf(c), ends |-> EndsOf(c), bounds |-> b]
    /\ pc = "call"
    /\ ret = <<>>
    /\ raised = "none"

CallComplementIntervals ==
    /\ pc = "call"
    /\ op = "complement_intervals"
    /\ ret' = complement_intervals(args.starts, args.ends, args.bounds)
    /\ raised' = "none"
    /\ pc' = "done"
    /\ UNCHANGED <<op, args>>

SpecComplement == InitComplement /\ [][CallComplementIntervals]_vars

(***************************************************************************)
(* _closest_intervals_nooverlap and closest_intervals                      *)
(***************************************************************************)
\* The possible values of ends2_sort_order: np.argsort(ends2) leaves the
\* order among equal ends open, np.lexsort([-tie_arr, ends2]) does not.
ends2_sort_orders(ends2, tie_arr) ==
    IF tie_arr = None THEN argsort(ends2)
    ELSE {lexsort(<<Array([i \in 1..Len(ends2) |-> -Value(tie_arr)[i]]), ends2>>)}

\* The possible values of starts2_sort_order.
starts2_sort_orders(starts2, tie_arr) ==
    IF tie_arr = None THEN argsort(starts2)
    ELSE {lexsort(<<Value(tie_arr), starts2>>)}

\* The rows <<id1, id2>> of the k_upstream set-2 intervals that end nearest
\* before each set-1 start (the body of "if k_upstream > 0").
upstream_neighbors(starts1, ends2, k_upstream, ends2_sort_order) ==
    LET n1 == Len(starts1)
        ids2_endsorted == take(np_arange(0, Len(ends2)), ends2_sort_order)
        ends2_sorted == take(ends2, ends2_sort_order)
        upstream_closest_endidx ==
            Array([i \in 1..n1 |-> searchsorted(ends2_sorted, starts1[i], "right")])
        upstream_closest_startidx ==
            Array([i \in 1..n1 |-> Max(searchsorted(ends2_sorted, starts1[i], "right")
                                           - k_upstream, 0)])
        int1_ids == np_repeat(np_arange(0, n1),
            Array([i \in 1..n1 |-> upstream_closest_endidx[i] - upstream_closest_startidx[i]]))
        int2_sorted_ids ==
            arange_multi(upstream_closest_startidx, Some(upstream_closest_endidx), None)
    IN  Array([i \in 1..Len(int2_sorted_ids) |->
                  <<int1_ids[i], ids2_endsorted[int2_sorted_ids[i] + 1]>>])

\* The rows <<id1, id2>> of the k_downstream set-2 intervals that start
\* nearest after each set-1 end (the body of "if k_downstream > 0").
downstream_neighbors(ends1, starts2, k_downstream, starts2_sort_order) ==
    LET n1 == Len(ends1)
        n2 == Len(starts2)
        ids2_startsorted == take(np_arange(0, n2), starts2_sort_order)
        starts2_sorted == take(starts2, starts2_sort_order)
        downstream_closest_startidx ==
            Array([i \in 1..n1 |-> searchsorted(starts2_sorted, ends1[i], "left")])
        downstream_closest_endidx ==
            Array([i \in 1..n1 |-> Min(searchsorted(starts2_sorted, ends1[i], "left")
                                           + k_downstream, n2)])
        int1_ids == np_repeat(np_arange(0, n1),
            Array([i \in 1..n1 |-> downstream_closest_endidx[i] - downstream_closest_startidx[i]]))
        int2_sorted_ids ==
            arange_multi(downstream_closest_startidx, Some(downstream_closest_endidx), None)
    IN  Array([i \in 1..Len(int2_sorted_ids) |->
                  <<int1_ids[i], ids2_startsorted[int2_sorted_ids[i] + 1]>>])

\* Returns <<upstream_ids, downstream_ids>>.
closest_intervals_nooverlap(starts1, ends1, starts2, ends2, k_upstream, k_downstream, ends2_sort_order, starts2_sort_order) ==
    << IF k_upstream > 0
       THEN upstream_neighbors(starts1, ends2, k_upstream, ends2_sort_order)
       ELSE <<>>,
       IF k_downstream > 0
       THEN downstream_neighbors(ends1, starts2, k_downstream, starts2_sort_order)
       ELSE <<>> >>

\* upstream_dists and downstream_dists: the distance is increased by 1, so
\* that 0 is left to the overlapping intervals.
upstream_dists(starts1, ends2, upstream_ids) ==
    Array([i \in 1..Len(upstream_ids) |->
              starts1[upstream_ids[i][1] + 1] - ends2[upstream_ids[i][2] + 1] + 1])

downstream_dists(ends1, starts2, downstream_ids) ==
    Array([i \in 1..Len(downstream_ids) |->
              starts2[downstream_ids[i][2] + 1] - ends1[downstream_ids[i][1] + 1] + 1])

\* A variant that ranks by id2 before the distance.
final_sort_keys_id2_first(closest_ids, closest_dists, tie_arr) ==
    <<closest_dists,
      Array([i \in 1..Len(closest_ids) |-> closest_ids[i][2]]),
      Array([i \in 1..Len(closest_ids) |-> closest_ids[i][1]])>>

\* The keys of the final np.lexsort; with a tie_arr the second key is
\* tie_arr itself, one entry per set-2 interval.
final_sort_keys(closest_ids, closest_dists, tie_arr) ==
    IF tie_arr = None
    THEN <<Array([i \in 1..Len(closest_ids) |-> closest_ids[i][2]]),
           closest_dists,
           Array([i \in 1..Len(closest_ids) |-> closest_ids[i][1]])>>
    ELSE <<Array([i \in 1..Len(closest_ids) |-> closest_ids[i][2]]),
           Value(tie_arr),
           closest_dists,
           Array([i \in 1..Len(closest_ids) |-> closest_ids[i][1]])>>

\* The number of rows kept of a run of one id1.
run_keep(k, run_length) == Min(k, run_length)

\* The index array arange_multi(interval1_run_starts, lengths=...) of the
\* rows kept, for closest_ids sorted by id1.
selected_rows(closest_ids, k) ==
    LET interval1_run_border_mask ==
            Array([i \in 1..Max(Len(closest_ids) - 1, 0) |->
                      closest_ids[i][1] # closest_ids[i + 1][1]])
        interval1_run_borders ==
            compress(np_arange(0, Len(interval1_run_border_mask) + 2),
                     <<TRUE>> \o interval1_run_border_mask \o <<TRUE>>)
        n_runs == Len(interval1_run_borders) - 1
    IN  arange_multi(SubSeq(interval1_run_borders, 1, n_runs), None,
                     Some(Array([i \in 1..n_runs |->
                             run_keep(k, interval1_run_borders[i + 1]
                                         - interval1_run_borders[i])])))

\* closest_ids[selected]: an index past the end raises IndexError.
index_rows(closest_ids, selected) ==
    IF \E i \in 1..Len(selected) : selected[i] >= Len(closest_ids)
    THEN [raised |-> "IndexError", value |-> <<>>]
    ELSE [raised |-> "none", value |-> take(closest_ids, selected)]

\* The final np.lexsort, which refuses keys of different lengths, and the
\* selection of up to k rows per id1.
sort_and_select(closest_ids, keys, k) ==
    IF \E m \in 1..Len(keys) : Len(keys[m]) # Len(closest_ids)
    THEN [raised |-> "ValueError", value |-> <<>>]
    ELSE index_rows(take(closest_ids, lexsort(keys)),
                    selected_rows(take(closest_ids, lexsort(keys)), k))

\* The part of closest_intervals after the candidates are found.
closest_of_candidates(starts1, ends1, starts2, ends2, k, tie_arr, upstream_ids, downstream_ids, overlap_ids) ==
    sort_and_select(upstream_ids \o downstream_ids \o overlap_ids,
                    final_sort_keys(upstream_ids \o downstream_ids \o overlap_ids,
                                    upstream_dists(starts1, ends2, upstream_ids)
                                        \o downstream_dists(ends1, starts2, downstream_ids)
                                        \o Array([i \in 1..Len(overlap_ids) |-> 0]),
                                    tie_arr),
                    k)

\* Returns [raised |-> the exception or "none", value |-> closest_ids].
closest_intervals(starts1, ends1, starts2, ends2, k, tie_arr, ignore_overlaps, ignore_upstream, ignore_downstream, ends2_sort_order, starts2_sort_order) ==
    closest_of_candidates(starts1, ends1, starts2, ends2, k, tie_arr,
        closest_intervals_nooverlap(starts1, ends1, starts2, ends2,
            IF ignore_upstream THEN 0 ELSE k, IF ignore_downstream THEN 0 ELSE k,
            ends2_sort_order, starts2_sort_order)[1],
        closest_intervals_nooverlap(starts1, ends1, starts2, ends2,
            IF ignore_upstream THEN 0 ELSE k, IF ignore_downstream THEN 0 ELSE k,
            ends2_sort_order, starts2_sort_order)[2],
        IF ignore_overlaps THEN <<>>
        ELSE overlap_intervals(starts1, ends1, starts2, ends2))

TieArrs(n) == {None} \cup {Some(t) : t \in [1..n -> 0..MaxTie]}

InitClosest ==
    /\ op = "closest_intervals"
    /\ \E c2 \in CollectionsUpTo(MaxN2, MaxPos) :
          \E c1 \in CollectionsUpTo(MaxN1, MaxPos), k \in 1..MaxK,
             t \in TieArrs(Len(c2)), g \in BOOLEAN \X BOOLEAN \X BOOLEAN :
             args = [starts1 |-> StartsOf(c1), ends1 |-> EndsOf(c1),
                     starts2 |-> StartsOf(c2), ends2 |-> EndsOf(c2),
                     k |-> k, tie_arr |-> t, ignore_overlaps |-> g[1],
                     ignore_upstream |-> g[2], ignore_downstream |-> g[3]]
    /\ pc = "call"
    /\ ret = <<>>
    /\ raised = "none"

CallClosestIntervals ==
    /\ pc = "call"
    /\ op = "closest_intervals"
    /\ \E eo \in ends2_sort_orders(args.ends2, args.tie_arr),
          so \in starts2_sort_orders(args.starts2, args.tie_arr) :
          LET r == closest_intervals(args.starts1, args.ends1, args.starts2, args.ends2,
                       args.k, args.tie_arr, args.ignore_overlaps,
                       args.ignore_upstream, args.ignore_downstream, eo, so)
          IN  /\ ret' = r.value
              /\ raised' = r.raised
    /\ pc' = "done"
    /\ UNCHANGED <<op, args>>

SpecClosest == InitClosest /\ [][CallClosestIntervals]_vars

(***************************************************************************)
(* The whole module: one call of any of the five operations.               *)
(***************************************************************************)
Init ==
    \/ InitClosest
    \/ InitArange
    \/ InitOverlap
    \/ InitMerge
    \/ InitComplement

Next ==
    \/ CallClosestIntervals
    \/ CallArangeMulti
    \/ CallOverlapIntervals
    \/ CallMergeIntervals
    \/ CallComplementIntervals

Spec == Init /\ [][Next]_vars

(***************************************************************************)
(* Properties.                                                             *)
(***************************************************************************)
Done(o) == op = o /\ pc = "done"

\* The row is in the returned array of rows.
InRet(row) == \E r \in 1..Len(ret) : ret[r] = row

\* The strict half-open overlap test.
Overlapping(s1, e1, s2, e2) == s1 < e2 /\ s2 < e1

\* Interval i of set 1 against interval j of set 2 (0-based ids), for the
\* two-set operations.
Ov(i, j) == Overlapping(args.starts1[i + 1], args.ends1[i + 1],
                        args.starts2[j + 1], args.ends2[j + 1])
Ids1 == 0..(Len(args.starts1) - 1)
Ids2 == 0..(Len(args.starts2) - 1)

(***************************************************************************)
(* overlap_intervals                                                       *)
(***************************************************************************)
\* C1: overlap_intervals is sound and complete: for every i of set 1 and j
\* of set 2 the pair (i, j) is in the output iff start1[i] < end2[j] and
\* start2[j] < end1[i]; every output row is such a (set 1, set 2) pair, so
\* that no pair of two intervals of the same set is in the output.
C1_OverlapSoundComplete ==
    Done("overlap_intervals") =>
        /\ raised = "none"
        /\ \A i \in Ids1, j \in Ids2 : InRet(<<i, j>>) <=> Ov(i, j)
        /\ \A r \in 1..Len(ret) : ret[r][1] \in Ids1 /\ ret[r][2] \in Ids2

\* A call that reports a pair, leaves a pair out, and has two overlapping
\* intervals inside set 2.
C1_Witness ==
    /\ Done("overlap_intervals")
    /\ \E i \in Ids1, j \in Ids2 : InRet(<<i, j>>)
    /\ \E i \in Ids1, j \in Ids2 : ~InRet(<<i, j>>)
    /\ \E j, jj \in Ids2 :
          /\ j # jj
          /\ Overlapping(args.starts2[j + 1], args.ends2[j + 1],
                         args.starts2[jj + 1], args.ends2[jj + 1])

ZeroLength1(i) == args.starts1[i + 1] = args.ends1[i + 1]
ZeroLength2(j) == args.starts2[j + 1] = args.ends2[j + 1]
Touching(i, j) == \/ args.ends1[i + 1] = args.starts2[j + 1]
                  \/ args.ends2[j + 1] = args.starts1[i + 1]
\* The zero-length interval lies strictly inside the other interval.
Inside1(i, j) == /\ ZeroLength1(i)
                 /\ args.starts2[j + 1] < args.starts1[i + 1]
                 /\ args.starts1[i + 1] < args.ends2[j + 1]
Inside2(i, j) == /\ ZeroLength2(j)
                 /\ args.starts1[i + 1] < args.starts2[j + 1]
                 /\ args.starts2[j + 1] < args.ends1[i + 1]

\* C10 as stated: a pair with a zero-length interval, or of two intervals
\* that only touch, is never in the output, also when the zero-length
\* interval lies strictly inside the other one.
C10_ZeroLengthNeverOverlaps ==
    Done("overlap_intervals") =>
        \A i \in Ids1, j \in Ids2 :
            (ZeroLength1(i) \/ ZeroLength2(j) \/ Touching(i, j)) => ~InRet(<<i, j>>)

\* C10 amended: a pair of two intervals that only touch is never in the
\* output, and a pair with a zero-length interval is in the output exactly
\* when the zero-length interval lies strictly inside the other interval.
C10_ZeroLengthOnlyInside ==
    Done("overlap_intervals") =>
        \A i \in Ids1, j \in Ids2 :
            /\ Touching(i, j) => ~InRet(<<i, j>>)
            /\ (ZeroLength1(i) \/ ZeroLength2(j)) =>
                   (InRet(<<i, j>>) <=> (Inside1(i, j) \/ Inside2(i, j)))

\* A call with a touching pair, a zero-length interval on the border of
\* another and a zero-length interval strictly inside another.
C10_Witness ==
    /\ Done("overlap_intervals")
    /\ \E i \in Ids1, j \in Ids2 :
          ~ZeroLength1(i) /\ ~ZeroLength2(j) /\ Touching(i, j) /\ ~InRet(<<i, j>>)
    /\ \E i \in Ids1, j \in Ids2 : Inside2(i, j) /\ InRet(<<i, j>>)
    /\ \E i \in Ids1, j \in Ids2 : ZeroLength1(i) /\ Touching(i, j) /\ ~InRet(<<i, j>>)

(***************************************************************************)
(* merge_intervals                                                         *)
(***************************************************************************)
\* The input intervals in the order sorted by (start, end), position
\* 1..n, and the largest end among the first i of them.
SortedStart(i) == args.starts[lexsort(<<args.ends, args.starts>>)[i] + 1]
SortedEnd(i) == args.ends[lexsort(<<args.ends, args.starts>>)[i] + 1]
LargestEnd(i) ==
    CHOOSE e \in {SortedEnd(j) : j \in 1..i} : \A j \in 1..i : SortedEnd(j) <= e

\* The sorted positions at which the claim lets a new cluster start.
StartsNewCluster(i) ==
    \/ i = 1
    \/ IF args.min_dist = None THEN SortedStart(i) >= LargestEnd(i - 1)
       ELSE SortedStart(i) > LargestEnd(i - 1) + Value(args.min_dist)
ClusterHeads == {i \in 1..Len(args.starts) : StartsNewCluster(i)}
\* The sorted positions of the first and the last interval of cluster c.
HeadOf(c) == CHOOSE i \in ClusterHeads : Cardinality({h \in ClusterHeads : h <= i}) = c
LastOf(c) == IF c = Cardinality(ClusterHeads) THEN Len(args.starts) ELSE HeadOf(c + 1) - 1

\* C9: moving through the intervals sorted by (start, end), interval i
\* starts a new cluster exactly when start_i >= (largest end so far) under
\* min_dist=None and exactly when start_i > (largest end so far) + d under
\* min_dist=d: the returned spans are the spans of these clusters, they are
\* ascending, and consecutive spans are separated by a gap larger than d
\* (under None: they do not overlap).
C9_MinDistSemantics ==
    Done("merge_intervals") =>
        LET cluster_starts == ret[2]
            cluster_ends == ret[3]
            n_clusters == Cardinality(ClusterHeads)
        IN  /\ raised = "none"
            /\ Len(cluster_starts) = n_clusters
            /\ Len(cluster_ends) = n_clusters
            /\ \A c \in 1..n_clusters :
                  /\ cluster_starts[c] = SortedStart(HeadOf(c))
                  /\ cluster_ends[c] = LargestEnd(LastOf(c))
            /\ \A c \in 1..(n_clusters - 1) :
                  /\ cluster_starts[c] <= cluster_starts[c + 1]
                  /\ cluster_ends[c] <= cluster_ends[c + 1]
                  /\ IF args.min_dist = None
                     THEN cluster_starts[c + 1] >= cluster_ends[c]
                     ELSE cluster_starts[c + 1] - cluster_ends[c] > Value(args.min_dist)

\* A call with min_dist = 0 on three intervals of which two only touch
\* and are merged, and of which one starts after the end of its
\* predecessor but not after the largest end so far.
C9_Witness ==
    /\ Done("merge_intervals")
    /\ args.min_dist = Some(0)
    /\ Len(args.starts) = 3
    /\ \E i \in 2..3 : SortedStart(i) = LargestEnd(i - 1) /\ ~StartsNewCluster(i)
    /\ \E i \in 2..3 : SortedStart(i) > SortedEnd(i - 1) /\ ~StartsNewCluster(i)

\* C2: the cluster id returned at input position i is the id of the
\* cluster that contains the interval at input position i.
C2_IdsAlignedToInput ==
    Done("merge_intervals") =>
        /\ Len(ret[1]) = Len(args.starts)
        /\ \A i \in 1..Len(args.starts) :
              /\ ret[1][i] \in 0..(Len(ret[2]) - 1)
              /\ ret[2][ret[1][i] + 1] <= args.starts[i]
              /\ args.ends[i] <= ret[3][ret[1][i] + 1]

(***************************************************************************)
(* complement_intervals                                                    *)
(***************************************************************************)
\* C3: for bounds lo < hi the returned gaps are ascending and pairwise
\* disjoint, each is a non-empty interval inside [lo, hi), and a point of
\* [lo, hi) is in some gap iff it is in no input interval.
C3_ComplementCovers ==
    Done("complement_intervals") =>
        LET complement_starts == ret[1]
            complement_ends == ret[2]
            lo == args.bounds[1]
            hi == args.bounds[2]
            n == Len(complement_starts)
        IN  /\ raised = "none"
            /\ Len(complement_ends) = n
            /\ \A g \in 1..n :
                  /\ lo <= complement_starts[g]
                  /\ complement_starts[g] < complement_ends[g]
                  /\ complement_ends[g] <= hi
            /\ \A g \in 1..(n - 1) : complement_ends[g] <= complement_starts[g + 1]
            /\ \A x \in lo..(hi - 1) :
                  (\E g \in 1..n : complement_starts[g] <= x /\ x < complement_ends[g])
                  <=> ~(\E i \in 1..Len(args.starts) : args.starts[i] <= x /\ x < args.ends[i])

\* A call that drops the leading gap (the input covers lo), clips an
\* input interval that lies outside the bounds and returns two gaps.
C3_Witness ==
    /\ Done("complement_intervals")
    /\ Len(ret[1]) >= 2
    /\ ret[1][1] > args.bounds[1]
    /\ \E i \in 1..Len(args.starts) :
          args.starts[i] >= args.bounds[2] \/ args.ends[i] <= args.bounds[1]

(***************************************************************************)
(* closest_intervals                                                       *)
(***************************************************************************)
NoGate == /\ ~args.ignore_overlaps
          /\ ~args.ignore_upstream
          /\ ~args.ignore_downstream

\* The distance of set-2 interval j from set-1 interval i: 0 for an
\* overlapping pair, start1 - end2 + 1 for an upstream one and
\* start2 - end1 + 1 for a downstream one.
Dist(i, j) ==
    IF Ov(i, j) THEN 0
    ELSE IF args.ends2[j + 1] <= args.starts1[i + 1]
         THEN args.starts1[i + 1] - args.ends2[j + 1] + 1
         ELSE args.starts2[j + 1] - args.ends1[i + 1] + 1

\* The positions of the output rows of id1.
RowsOf(i) == {r \in 1..Len(ret) : ret[r][1] = i}

\* C4: with no gate set (and no tie-break array) the call returns, for
\* every id1, at most k pairs, fewer than k only when every set-2 interval
\* is among them, and leaves out no set-2 interval that is strictly nearer
\* than a returned one; the pairs are ordered by id1 and, within an id1,
\* by non-decreasing distance.
C4_KNearest ==
    (Done("closest_intervals") /\ NoGate /\ args.tie_arr = None) =>
        /\ raised = "none"
        /\ \A i \in Ids1 :
              /\ Cardinality(RowsOf(i)) <= args.k
              /\ Cardinality(RowsOf(i)) < args.k => \A j \in Ids2 : InRet(<<i, j>>)
              /\ \A j \in Ids2, r \in RowsOf(i) :
                    ~InRet(<<i, j>>) => Dist(i, j) >= Dist(i, ret[r][2])
        /\ \A r \in 1..(Len(ret) - 1) :
              /\ ret[r][1] <= ret[r + 1][1]
              /\ ret[r][1] = ret[r + 1][1] =>
                    Dist(ret[r][1], ret[r][2]) <= Dist(ret[r + 1][1], ret[r + 1][2])

\* C5: without a tie-break array (and with no gate set), of the set-2
\* intervals at the same distance from a set-1 interval the ones returned
\* are those with the smallest id2.
C5_TiesLowestId2 ==
    (Done("closest_intervals") /\ NoGate /\ args.tie_arr = None) =>
        \A i \in Ids1, j \in Ids2, jj \in Ids2 :
            (InRet(<<i, j>>) /\ ~InRet(<<i, jj>>) /\ Dist(i, j) = Dist(i, jj)) => j < jj

\* C6: with a tie-break array over a non-empty set 2 (non-empty set 1, no
\* gate set) the call completes, and among the set-2 intervals at the
\* same distance from a set-1 interval one with a lower tie_arr value, taken
\* at its own id2, is ranked first and is the one selected when k cuts
\* the list.
C6_TieArrPriority ==
    (/\ Done("closest_intervals")
     /\ NoGate
     /\ args.tie_arr # None
     /\ Ids1 # {}
     /\ Ids2 # {}) =>
        /\ raised = "none"
        /\ \A i \in Ids1, j \in Ids2, jj \in Ids2 :
              (InRet(<<i, j>>) /\ ~InRet(<<i, jj>>) /\ Dist(i, j) = Dist(i, jj))
                  => Value(args.tie_arr)[j + 1] <= Value(args.tie_arr)[jj + 1]
        /\ \A i \in Ids1 : \A r \in RowsOf(i), rr \in RowsOf(i) :
              (r < rr /\ Dist(i, ret[r][2]) = Dist(i, ret[rr][2]))
                  => Value(args.tie_arr)[ret[r][2] + 1] <= Value(args.tie_arr)[ret[rr][2] + 1]

\* The id2 of the pairs that overlap_intervals finds for id1.
OverlapsOf(i) ==
    {j \in Ids2 :
        \E r \in 1..Len(overlap_intervals(args.starts1, args.ends1,
                                          args.starts2, args.ends2)) :
            overlap_intervals(args.starts1, args.ends1,
                              args.starts2, args.ends2)[r] = <<i, j>>}

C8_EmptyInEmptyOut ==
    pc = "done" =>
        /\ (/\ op = "closest_intervals"
            /\ (args.starts1 = <<>> \/ args.starts2 = <<>>)) =>
               (raised = "none" /\ ret = <<>>)
        /\ (/\ op = "arange_multi"
            /\ args.starts = <<>>
            /\ (args.stops = None) # (args.lengths = None)) =>
               (raised = "none" /\ ret = <<>>)
        /\ (/\ op = "overlap_intervals"
            /\ (args.starts1 = <<>> \/ args.starts2 = <<>>)) =>
               (raised = "none" /\ ret = <<>>)
        /\ (op = "merge_intervals" /\ args.starts = <<>>) =>
               (raised = "none" /\ ret = << <<>>, <<>>, <<>> >>)
        /\ (op = "complement_intervals" /\ args.starts = <<>>) =>
               (raised = "none" /\ ret = << <<>>, <<>> >>)

=============================================================================
